---- MODULE Spec2Model ----
(***************************************************************************)
(* local-dynamodb-ttl: a polling process that emulates DynamoDB TTL.       *)
(* main() resolves the table's key schema (retrying while the table does   *)
(* not exist), then loops forever: scan for items whose TTL attribute is   *)
(* less than the current epoch second, delete them one by one, sleep.      *)
(*                                                                         *)
(* The store (DynamoDB behind the AWS SDK client) is the environment: it   *)
(* answers every request with a success, a non-200 status or a thrown      *)
(* error, and another client may write to the table between two awaits of  *)
(* the process.                                                            *)
(***************************************************************************)
EXTENDS Integers, Sequences, FiniteSets, TLC

(* ------------------------------ bounds --------------------------------- *)
MaxItems == 2      \* item identities (distinct primary keys) the table can hold
MaxTicks == 1      \* clock advances of TickMs each
StartMs  == 9500   \* Date.now() when the process starts
TickMs   == 500    \* one clock advance, in milliseconds

ItemIds == 1..MaxItems

(* ------------------------- values and conversions ---------------------- *)
\* JavaScript's undefined as an attribute name: a computed property key
\* [undefined] is the string "undefined".
NoName == "undefined"

\* AttributeValue: {N: "<decimal>"} or {S: "<text>"}; v holds the characters
\* (decimal digits for N).  Undefined is the value of a missing property.
Undefined == [t |-> "undefined", v |-> <<>>]

RECURSIVE ToDecimal(_)
\* Number.prototype.toString() of a non-negative integer
ToDecimal(n) == IF n < 10 THEN <<n>> ELSE Append(ToDecimal(n \div 10), n % 10)

RECURSIVE ParseDecimal(_)
\* the store's reading of an N attribute value
ParseDecimal(s) ==
  IF Len(s) = 0 THEN 0
  ELSE ParseDecimal(SubSeq(s, 1, Len(s) - 1)) * 10 + s[Len(s)]

NumberValue(n) == [t |-> "N", v |-> ToDecimal(n)]
StringValue    == [t |-> "S", v |-> <<7>>]

\* Math.floor(Date.now() / 1000)
EpochSeconds(ms) == ms \div 1000

(* ------------------------------ configuration -------------------------- *)
RequiredVars == {"AWS_ENDPOINT", "TABLE_NAME", "TTL_ATTRIBUTE"}
AllVars      == RequiredVars \cup {"AWS_REGION"}
EnvChoices   == {AllVars} \cup {AllVars \ {x} : x \in AllVars}

\* the client is built with region: process.env.AWS_REGION unchecked; without
\* it (the image has no shared configuration to fall back on) the client's
\* region provider throws inside send(), before a request leaves
ClientCanSend(e) == "AWS_REGION" \in e

\* getRequiredEnvironmentVariable(name) returns a value iff the variable is set
HasVariable(e, name) == name \in e

(* ------------------------------ the table ------------------------------ *)
HashName == "id"
RangeName == "sk"
TtlName == "Expires"
PayloadName == "payload"

StartSec == EpochSeconds(StartMs)
\* what an item can hold in its TTL attribute: an epoch second around the
\* start of the run, a string, or nothing
TtlChoices ==
  {NumberValue(StartSec), NumberValue(StartSec + 1), StringValue, Undefined}

Absent == [present |-> FALSE, ttl |-> Undefined]
Stored(ttl) == [present |-> TRUE, ttl |-> ttl]

\* the partition key value of item i: with a composite key two items share a
\* partition and differ in the sort key
HashOf(comp, i) == IF comp THEN NumberValue((i + 1) \div 2) ELSE NumberValue(i)
SortOf(i) == NumberValue(i)

\* the attribute names of the table's primary key
TableKeyNames(comp) == IF comp THEN {HashName, RangeName} ELSE {HashName}

\* the full record of stored item i, as a Scan returns it
ItemRecord(comp, tbl, i) ==
  LET names == TableKeyNames(comp) \cup {PayloadName}
                 \cup (IF tbl[i].ttl = Undefined THEN {} ELSE {TtlName})
  IN [a \in names |->
        CASE a = HashName -> HashOf(comp, i)
          [] a = RangeName -> SortOf(i)
          [] a = TtlName -> tbl[i].ttl
          [] OTHER -> StringValue]

\* i[name] in JavaScript
Get(rec, name) == IF name \in DOMAIN rec THEN rec[name] ELSE Undefined

Present(tbl) == {i \in ItemIds : tbl[i].present}

VARIABLES
  env,              \* process.env: the configuration variables that are set
  ticks,            \* clock advances so far; Date.now() = StartMs + ticks * TickMs
  tableExists,      \* the store has the table
  composite,        \* the table's primary key is HASH + RANGE
  table,            \* the table's items: ItemIds -> [present, ttl]
  pageLimit,        \* items one Scan request evaluates before it stops (the store's page)
  pc,               \* where main() is
  keySchema,        \* main's keySchema
  describeResponse, \* the DescribeTable response getTableKeySchema last read
  expiredItems,     \* main's expiredItems, the keys handed to deleteItems
  idx,              \* deleteItems: position of the next key
  deleteLog,        \* keys of the DeleteItem requests of the current deleteItems call
  issued,           \* kinds of store requests issued so far
  last,             \* the last request of the process and its outcome
  scanExpired,      \* items that had a numeric TTL below now at the last scan
  scanKept          \* items in the table and not expired at the last scan, there since

vars == <<env, ticks, tableExists, composite, table, pageLimit, pc, keySchema,
          describeResponse, expiredItems, idx, deleteLog, issued, last,
          scanExpired, scanKept>>

storeVars == <<tableExists, composite, table, pageLimit>>
procVars == <<pc, keySchema, describeResponse, expiredItems, idx, deleteLog,
              issued, last, scanExpired>>

Now == StartMs + ticks * TickMs

(* --------------------------- DescribeTable ----------------------------- *)
SchemaEntry(name, keyType) == [AttributeName |-> name, KeyType |-> keyType]

\* an attribute definition of the response: present with a type, present
\* without a type, or not there
DefinitionOf(name, c) ==
  IF c = "absent" THEN <<>> ELSE <<[AttributeName |-> name, AttributeType |-> c]>>
DefinitionChoices == {"N", NoName, "absent"}

NoResponse == [received |-> FALSE, KeySchema |-> <<>>, AttributeDefinitions |-> <<>>]

\* the successful DescribeTable responses for the table: its key schema
\* entries in order, each with its key type or one the code does not know,
\* and each key attribute with or without a (typed) definition
DescribeResponses(comp) ==
  IF comp
  THEN {[received |-> TRUE,
         KeySchema |-> <<SchemaEntry(HashName, k1), SchemaEntry(RangeName, k2)>>,
         AttributeDefinitions |-> DefinitionOf(HashName, c1) \o DefinitionOf(RangeName, c2)] :
          k1 \in {"HASH", "OTHER"}, k2 \in {"RANGE", "OTHER"},
          c1 \in DefinitionChoices, c2 \in DefinitionChoices}
  ELSE {[received |-> TRUE,
         KeySchema |-> <<SchemaEntry(HashName, k1)>>,
         AttributeDefinitions |-> DefinitionOf(HashName, c1)] :
          k1 \in {"HASH", "OTHER"}, c1 \in DefinitionChoices}

\* what the store can answer to DescribeTable
DescribeOutcomes(exists) ==
  IF exists THEN {"ok", "error", "non200", "noTable", "noKeySchema"}
  ELSE {"ResourceNotFoundException", "error"}

\* AttributeDefinitions?.find((d) => d.AttributeName === name): the first
\* definition of that name, found or not
FindDefinition(defs, name) ==
  LET hits == SelectSeq(defs, LAMBDA d : d.AttributeName = name)
  IN IF Len(hits) = 0 THEN [found |-> FALSE, AttributeType |-> NoName]
     ELSE [found |-> TRUE, AttributeType |-> hits[1].AttributeType]

\* ClassifyEntry without the test of the attribute definition
ClassifyEntry_Untyped(acc, entry, defs) ==
  IF entry.KeyType = "HASH" THEN [acc EXCEPT !.hash = entry.AttributeName]
  ELSE IF entry.KeyType = "RANGE" THEN [acc EXCEPT !.range = entry.AttributeName]
  ELSE acc

\* ClassifyEntry that knows the HASH key type only
ClassifyEntry_HashOnly(acc, entry, defs) ==
  LET def == FindDefinition(defs, entry.AttributeName)
  IN IF ~def.found \/ def.AttributeType = NoName THEN acc
     ELSE IF entry.KeyType = "HASH" THEN [acc EXCEPT !.hash = entry.AttributeName]
     ELSE acc

\* one iteration of the loop over response.Table.KeySchema
ClassifyEntry(acc, entry, defs) ==
  LET def == FindDefinition(defs, entry.AttributeName)
  IN IF ~def.found \/ def.AttributeType = NoName THEN acc
     ELSE IF entry.KeyType = "HASH" THEN [acc EXCEPT !.hash = entry.AttributeName]
     ELSE IF entry.KeyType = "RANGE" THEN [acc EXCEPT !.range = entry.AttributeName]
     ELSE acc

RECURSIVE ClassifyAll(_, _, _)
ClassifyAll(acc, entries, defs) ==
  IF Len(entries) = 0 THEN acc
  ELSE ClassifyAll(ClassifyEntry(acc, Head(entries), defs), Tail(entries), defs)

\* main's keySchema before the first assignment
Unresolved == [resolved |-> FALSE, hash |-> NoName, range |-> NoName]

\* getTableKeySchema on a successful response: the object it returns
getTableKeySchema(response) ==
  ClassifyAll([resolved |-> TRUE, hash |-> NoName, range |-> NoName],
              response.KeySchema, response.AttributeDefinitions)

\* a catch that waits and retries whatever was thrown
CatchResolveError_RetryAll(err) == "retryWait"

\* CatchResolveError without the instanceof test: every error is rethrown
CatchResolveError_Rethrow(err) == "terminated"

\* main's catch around getTableKeySchema: where a thrown error leads
CatchResolveError(err) ==
  IF err = "ResourceNotFoundException" THEN "retryWait" ELSE "terminated"

\* LoopCondition testing a field of the object instead of the object
LoopCondition_NeedsRange(ks) == ~ks.resolved \/ ks.range = NoName

\* main's do ... while (!keySchema): an object is truthy whatever it holds
LoopCondition(ks) == ~ks.resolved

(* ------------------------------- Scan ---------------------------------- *)
\* ScanFilterLT with the comparison reversed
ScanFilterLT_Reversed(value, operand) ==
  /\ value.t = "N"
  /\ operand.t = "N"
  /\ ParseDecimal(value.v) > ParseDecimal(operand.v)

\* ScanFilterLT with LE in place of LT
ScanFilterLT_OrEqual(value, operand) ==
  /\ value.t = "N"
  /\ operand.t = "N"
  /\ ParseDecimal(value.v) <= ParseDecimal(operand.v)

\* ComparisonOperator LT of the ScanFilter against one operand of type N:
\* the attribute matches when it is a number below the operand
ScanFilterLT(value, operand) ==
  /\ value.t = "N"
  /\ operand.t = "N"
  /\ ParseDecimal(value.v) < ParseDecimal(operand.v)

\* ScanOperand without the division to seconds
ScanOperand_Millis(nowMs) == [t |-> "N", v |-> ToDecimal(nowMs)]

\* AttributeValueList: [{ N: Math.floor(Date.now() / 1000).toString() }]
ScanOperand(nowMs) == [t |-> "N", v |-> ToDecimal(EpochSeconds(nowMs))]

RECURSIVE IdsInOrder(_, _)
\* the given items in the store's scan order
IdsInOrder(S, from) ==
  IF from > MaxItems THEN <<>>
  ELSE (IF from \in S THEN <<from>> ELSE <<>>) \o IdsInOrder(S, from + 1)

\* the items one Scan request evaluates: the first page of the table; the
\* code sends no ExclusiveStartKey, so every request starts from the top
ScanPage(tbl, limit) ==
  LET all == IdsInOrder(Present(tbl), 1)
  IN SubSeq(all, 1, IF Len(all) < limit THEN Len(all) ELSE limit)

\* the items of the page that pass the filter, in order
ScanMatches(tbl, limit, nowMs) ==
  SelectSeq(ScanPage(tbl, limit), LAMBDA i : ScanFilterLT(tbl[i].ttl, ScanOperand(nowMs)))

\* the map callback of getExpiredItemKeys: the key record of one item
ProjectKey(ks, item) ==
  LET names == {ks.hash} \cup (IF ks.range # NoName THEN {ks.range} ELSE {})
  IN [a \in names |-> Get(item, a)]

\* response.Items.map(...)
ProjectAll(ks, comp, tbl, ids) ==
  [k \in 1..Len(ids) |-> ProjectKey(ks, ItemRecord(comp, tbl, ids[k]))]

\* getExpiredItemKeys' return value: undefined when the response has no
\* Items, the projected keys otherwise
NoItems == [defined |-> FALSE, keys |-> <<>>]
ItemKeys(keys) == [defined |-> TRUE, keys |-> keys]

\* a main that returns when a scan finds nothing to delete
AfterScan_ExitsWhenIdle(result) ==
  IF result.defined /\ Len(result.keys) > 0 THEN "delete" ELSE "terminated"

\* AfterScan that treats a response without Items as a failure
AfterScan_UndefinedThrows(result) ==
  IF ~result.defined THEN "terminated"
  ELSE IF Len(result.keys) > 0 THEN "delete" ELSE "sleep"

\* main after the scan: if (expiredItems) deleteItems(...), whose loop over
\* an empty array sends nothing
AfterScan(result) ==
  IF result.defined /\ Len(result.keys) > 0 THEN "delete" ELSE "sleep"

\* a scan failure swallowed when the table is gone: wait and scan again
AfterScanFailure_RetriesNotFound(outcome) ==
  IF outcome = "ResourceNotFoundException" THEN "sleep" ELSE "terminated"

\* a scan failure that sends main back to resolving when the table is gone
AfterScanFailure_Reresolves(outcome) ==
  IF outcome = "ResourceNotFoundException" THEN "resolve" ELSE "terminated"

\* main has no catch around getExpiredItemKeys: whatever it throws rejects
\* main's promise
AfterScanFailure(outcome) == "terminated"

(* ---------------------------- DeleteItem ------------------------------- *)
\* the store accepts a key that names exactly the table's key attributes
ValidKey(comp, key) ==
  /\ DOMAIN key = TableKeyNames(comp)
  /\ \A a \in DOMAIN key : key[a] # Undefined

\* the stored items a valid key addresses
Addressed(comp, tbl, key) ==
  {i \in Present(tbl) :
     \A a \in TableKeyNames(comp) : Get(key, a) = ItemRecord(comp, tbl, i)[a]}

\* a loop that sends the first key at every iteration
KeyAt_First(keys, k) == keys[1]

\* KeyAt walking the keys from the end
KeyAt_FromEnd(keys, k) == keys[Len(keys) - k + 1]

\* deleteItems: the key of iteration k of for (const key of keys)
KeyAt(keys, k) == keys[k]

\* a loop that skips the wait after a batch and scans again at once
AfterDelete_NoWait(status, k, n) ==
  IF status # 200 THEN "terminated"
  ELSE IF k < n THEN "delete" ELSE "scan"

\* AfterDelete without the status test
AfterDelete_IgnoresStatus(status, k, n) == IF k < n THEN "delete" ELSE "sleep"

\* deleteItems after a response: a status other than 200 throws, otherwise
\* the loop goes on to the next key and returns after the last one
AfterDelete(status, k, n) ==
  IF status # 200 THEN "terminated"
  ELSE IF k < n THEN "delete" ELSE "sleep"

(* ------------------------------ the process ---------------------------- *)
\* the last thing the process asked of the store and how it ended; a
\* required variable found missing ends the call before any request
NoRequest == [req |-> "none", outcome |-> "none"]
Answer(req, outcome) == [req |-> req, outcome |-> outcome]
ConfigError == Answer("none", "config")

\* what the store can answer to Scan
ScanOutcomes(exists) ==
  IF exists THEN {"ok", "non200", "error"} ELSE {"ResourceNotFoundException", "error"}

\* what the store can answer to DeleteItem: a key that does not match the
\* table's key schema is rejected
DeleteOutcomes(exists, valid) ==
  IF ~exists THEN {"ResourceNotFoundException", "error"}
  ELSE IF ~valid THEN {"error"}
  ELSE {"ok", "non200", "error"}

Init ==
  /\ env \in EnvChoices
  /\ ticks = 0
  /\ tableExists \in BOOLEAN
  /\ composite \in BOOLEAN
  /\ table \in [ItemIds -> {Absent} \cup {Stored(x) : x \in TtlChoices}]
  /\ (~tableExists => table = [i \in ItemIds |-> Absent])
  /\ pageLimit \in 1..MaxItems
  /\ pc = "load"
  /\ keySchema = Unresolved
  /\ describeResponse = NoResponse
  /\ expiredItems = NoItems
  /\ idx = 1
  /\ deleteLog = <<>>
  /\ issued = {}
  /\ last = NoRequest
  /\ scanExpired = {}
  /\ scanKept = {}

\* module load: the client is constructed with the required endpoint, then
\* main() is called
Load ==
  /\ pc = "load"
  /\ IF HasVariable(env, "AWS_ENDPOINT")
     THEN pc' = "resolve" /\ last' = last
     ELSE pc' = "terminated" /\ last' = ConfigError
  /\ UNCHANGED <<env, ticks, storeVars, keySchema, describeResponse, expiredItems,
                 idx, deleteLog, issued, scanExpired, scanKept>>

\* one pass of main's do-while body: getTableKeySchema() and its catch
Resolve ==
  /\ pc = "resolve"
  /\ IF ~HasVariable(env, "TABLE_NAME") \/ ~ClientCanSend(env)
     THEN /\ pc' = CatchResolveError("Error")
          /\ last' = ConfigError
          /\ UNCHANGED <<keySchema, describeResponse, issued>>
     ELSE /\ issued' = issued \cup {"describe"}
          /\ \E outcome \in DescribeOutcomes(tableExists) :
               /\ last' = Answer("describe", outcome)
               /\ IF outcome = "ok"
                  THEN \E response \in DescribeResponses(composite) :
                         /\ describeResponse' = response
                         /\ keySchema' = getTableKeySchema(response)
                         /\ pc' = IF LoopCondition(keySchema') THEN "resolve" ELSE "scan"
                  ELSE /\ pc' = CatchResolveError(outcome)
                       /\ UNCHANGED <<keySchema, describeResponse>>
  /\ UNCHANGED <<env, ticks, storeVars, expiredItems, idx, deleteLog, scanExpired,
                 scanKept>>

\* await sleep(sleepSeconds) in the catch, then the loop test
RetryWait ==
  /\ pc = "retryWait"
  /\ pc' = IF LoopCondition(keySchema) THEN "resolve" ELSE "scan"
  /\ UNCHANGED <<env, ticks, storeVars, keySchema, describeResponse, expiredItems,
                 idx, deleteLog, issued, last, scanExpired, scanKept>>

\* the items of the table with a numeric TTL below the epoch second
ExpiredAt(tbl, sec) ==
  {i \in Present(tbl) : \E n \in 0..(sec - 1) : tbl[i].ttl = NumberValue(n)}

\* getExpiredItemKeys(keySchema) and main's branch on its result
Scan ==
  /\ pc = "scan"
  /\ describeResponse' = NoResponse
  /\ IF ~HasVariable(env, "TABLE_NAME") \/ ~HasVariable(env, "TTL_ATTRIBUTE")
          \/ ~ClientCanSend(env)
     THEN /\ pc' = "terminated"
          /\ last' = ConfigError
          /\ UNCHANGED <<expiredItems, idx, deleteLog, issued, scanExpired, scanKept>>
     ELSE /\ issued' = issued \cup {"scan"}
          /\ \E outcome \in ScanOutcomes(tableExists) :
               /\ last' = Answer("scan", outcome)
               /\ IF outcome = "ok"
                  THEN LET ids == ScanMatches(table, pageLimit, Now)
                           keys == ProjectAll(keySchema, composite, table, ids)
                       IN /\ expiredItems' \in
                               {ItemKeys(keys)} \cup (IF Len(ids) = 0 THEN {NoItems} ELSE {})
                          /\ pc' = AfterScan(expiredItems')
                          /\ idx' = 1
                          /\ deleteLog' = <<>>
                          /\ scanExpired' = ExpiredAt(table, EpochSeconds(Now))
                          /\ scanKept' = Present(table) \ scanExpired'
                  ELSE /\ pc' = AfterScanFailure(outcome)
                       /\ UNCHANGED <<expiredItems, idx, deleteLog, scanExpired, scanKept>>
  /\ UNCHANGED <<env, ticks, storeVars, keySchema>>

\* one iteration of deleteItems: one DeleteItem request and its response
Delete ==
  /\ pc = "delete"
  /\ IF ~ClientCanSend(env)
     THEN /\ pc' = "terminated"
          /\ last' = ConfigError
          /\ UNCHANGED <<table, idx, deleteLog, issued>>
     ELSE LET key == KeyAt(expiredItems.keys, idx)
          IN /\ deleteLog' = Append(deleteLog, key)
             /\ issued' = issued \cup {"delete"}
             /\ \E outcome \in DeleteOutcomes(tableExists, ValidKey(composite, key)) :
                  /\ last' = Answer("delete", outcome)
                  /\ IF outcome \in {"ok", "non200"}
                     THEN LET status == IF outcome = "ok" THEN 200 ELSE 500
                          IN /\ pc' = AfterDelete(status, idx, Len(expiredItems.keys))
                             /\ table' = IF status = 200
                                         THEN [i \in ItemIds |->
                                                 IF i \in Addressed(composite, table, key)
                                                 THEN Absent ELSE table[i]]
                                         ELSE table
                             /\ idx' = IF status = 200 THEN idx + 1 ELSE idx
                     ELSE /\ pc' = "terminated"
                          /\ UNCHANGED <<table, idx>>
  /\ UNCHANGED <<env, ticks, tableExists, composite, pageLimit, keySchema,
                 describeResponse, expiredItems, scanExpired, scanKept>>

\* await sleep(sleepSeconds) at the end of a cycle; the iteration's
\* expiredItems goes out of scope with it
Sleep ==
  /\ pc = "sleep"
  /\ pc' = "scan"
  /\ expiredItems' = NoItems
  /\ idx' = 1
  /\ deleteLog' = <<>>
  /\ scanExpired' = {}
  /\ scanKept' = {}
  /\ UNCHANGED <<env, ticks, storeVars, keySchema, describeResponse, issued, last>>

Process == Load \/ Resolve \/ RetryWait \/ Scan \/ Delete \/ Sleep

(* ---------------------------- the environment -------------------------- *)
\* time passes
Tick ==
  /\ ticks < MaxTicks
  /\ ticks' = ticks + 1
  /\ UNCHANGED <<env, storeVars, procVars, scanKept>>

\* the deployment creates the table the process waits for, or creates it
\* again after a drop, with either kind of primary key
CreateTable ==
  /\ ~tableExists
  /\ tableExists' = TRUE
  /\ composite' \in BOOLEAN
  /\ UNCHANGED <<env, ticks, table, pageLimit, procVars, scanKept>>

\* the table is dropped, with its items
DropTable ==
  /\ tableExists
  /\ tableExists' = FALSE
  /\ table' = [i \in ItemIds |-> Absent]
  /\ scanKept' = {}
  /\ UNCHANGED <<env, ticks, composite, pageLimit, procVars>>

\* another client writes an item: a new one, or a new TTL under an existing key
ClientPut ==
  /\ tableExists
  /\ \E i \in ItemIds, x \in TtlChoices : table' = [table EXCEPT ![i] = Stored(x)]
  /\ UNCHANGED <<env, ticks, tableExists, composite, pageLimit, procVars, scanKept>>

Next == Load \/ Resolve \/ RetryWait \/ Scan \/ Delete \/ Sleep
          \/ Tick \/ CreateTable \/ DropTable \/ ClientPut

Spec == Init /\ [][Next]_vars

\* every awaited request is answered and every timer fires
FairSpec == Spec /\ WF_vars(Process)

Running == pc \in {"scan", "delete", "sleep"}
Resolving == pc \in {"resolve", "retryWait"}
Terminated == pc = "terminated"

(* ======================= properties of the process ===================== *)
DescribeNotFound == Answer("describe", "ResourceNotFoundException")
DescribeOk == Answer("describe", "ok")

\* C1: while DescribeTable answers "table not found", the process does not
\* terminate and issues no Scan or DeleteItem: the not-found answer leads to
\* the retry wait, the wait issues nothing, and after it the next thing the
\* process does is another DescribeTable.
C1_NotFoundIsRetried ==
  /\ [](last = DescribeNotFound =>
          /\ Resolving
          /\ ~keySchema.resolved
          /\ "scan" \notin issued /\ "delete" \notin issued)
  /\ [][(pc = "resolve" /\ pc' # pc /\ last' = DescribeNotFound) => pc' = "retryWait"]_vars
  /\ [][(pc = "retryWait" /\ pc' # pc) =>
          (pc' = "resolve" /\ last' = last /\ issued' = issued)]_vars
  /\ [][(pc = "resolve" /\ last = DescribeNotFound /\ procVars' # procVars) =>
          last'.req = "describe"]_vars

\* a not-found answer has been waited out and the next describe is due
C1_Witness == last = DescribeNotFound /\ pc = "resolve"

\* C2: the first successful DescribeTable answer takes the process to RUNNING
\* at once: the step that reads it goes to the scan, nothing but a Scan is
\* requested after it, and a table that exists and stays gets the process
\* out of RESOLVING (to RUNNING, or terminated by a fatal error).
C2_FirstSuccessRuns ==
  /\ [][(pc = "resolve" /\ describeResponse'.received) =>
          (pc' = "scan" /\ keySchema'.resolved)]_vars
  /\ [](last = DescribeOk => pc = "scan")
  /\ [][(last = DescribeOk /\ last' # last) =>
          (last'.req = "scan" \/ last' = ConfigError)]_vars
  /\ (tableExists ~> (Running \/ Terminated \/ ~tableExists))

\* the table was described and the first scan is due
C2_Witness == last = DescribeOk /\ pc = "scan" /\ issued = {"describe"}

\* the items expired now: a numeric TTL below the current epoch second
ExpiredNow == ExpiredAt(table, EpochSeconds(Now))

\* every item of the table is within the page one Scan request evaluates
FitsOnePage == Cardinality(Present(table)) <= pageLimit

\* C3 as stated: once RUNNING, every expired item is eventually removed
\* (or its TTL is changed by someone else, or a request fails and the
\* process terminates), whatever part of the table one Scan request covers.
C3_Original ==
  \A x \in ItemIds :
    (Running /\ x \in ExpiredNow) ~> (x \notin ExpiredNow \/ Terminated)

\* C3 amended: once RUNNING, every expired item of a table that fits in the
\* single page a Scan request evaluates is eventually removed by a delete of
\* some cycle (or its TTL is changed by someone else, or a request fails and
\* the process terminates).
C3_EventualDeletion ==
  \A x \in ItemIds :
    (Running /\ x \in ExpiredNow /\ FitsOnePage)
      ~> (x \notin ExpiredNow \/ Terminated \/ ~FitsOnePage)

\* a cycle has deleted both of the items that were expired at its scan
C3_Witness ==
  /\ last = Answer("delete", "ok")
  /\ pc = "sleep"
  /\ Cardinality(scanExpired) >= 2
  /\ scanExpired \cap Present(table) = {}

\* C4: an item that the scan of a cycle saw not expired (TTL at or above
\* now, not a number, or missing) is not addressed by any DeleteItem request
\* of that cycle, and no step that sends a DeleteItem changes it.
C4_UnexpiredUntouched ==
  [][deleteLog' # deleteLog /\ Len(deleteLog') > 0 =>
       \A i \in scanKept :
         /\ i \notin Addressed(composite, table, deleteLog'[Len(deleteLog')])
         /\ table'[i] = table[i]]_vars

\* a cycle has deleted an expired item and left one whose TTL equals now
C4_Witness ==
  /\ last = Answer("delete", "ok")
  /\ pc = "sleep"
  /\ \E i \in Present(table) \cap scanKept :
       table[i].ttl = NumberValue(EpochSeconds(Now))

\* C5: over a table that fits in one page, a successful scan returns exactly
\* the keys of the items whose TTL is a number strictly below now, in the
\* store's order (or nothing at all when there is no such item).
C5_ScanSelectsExpired ==
  [][(pc = "scan" /\ pc' \in {"delete", "sleep"} /\ FitsOnePage) =>
       LET expired == IdsInOrder(ExpiredNow, 1)
       IN IF expiredItems'.defined
          THEN expiredItems'.keys = ProjectAll(keySchema, composite, table, expired)
          ELSE Len(expired) = 0]_vars

\* a scan has returned one key of a table holding a second item whose TTL
\* equals now
C5_Witness ==
  /\ pc = "delete" /\ idx = 1 /\ deleteLog = <<>>
  /\ Len(expiredItems.keys) = 1
  /\ Cardinality(Present(table)) = 2
  /\ FitsOnePage
  /\ \E i \in Present(table) : table[i].ttl = NumberValue(EpochSeconds(Now))

\* C6: while every delete succeeds, the DeleteItem requests of a deleteItems
\* call are the keys it was given, one request per key, in their order: after
\* k requests the log is the first k keys, and at the end it is all of them.
C6_DeletesInOrder ==
  /\ (pc = "delete" =>
        /\ idx <= Len(expiredItems.keys)
        /\ deleteLog = SubSeq(expiredItems.keys, 1, idx - 1))
  /\ (pc = "sleep" /\ expiredItems.defined => deleteLog = expiredItems.keys)

\* a batch of two different keys has been deleted completely
C6_Witness ==
  /\ pc = "sleep"
  /\ last = Answer("delete", "ok")
  /\ Len(deleteLog) = 2
  /\ deleteLog[1] # deleteLog[2]

\* C7: a DeleteItem that does not succeed is the last request of the
\* process: it is request number k of the batch, the step leaves the table as
\* it was, the process terminates, and a terminated process sends nothing
\* more; no step of the process ever puts an item back.
C7_FailedDeleteStops ==
  /\ []((last.req = "delete" /\ last.outcome # "ok") => Terminated)
  /\ [][(pc = "delete" /\ pc' # pc /\ last'.outcome # "ok") =>
          /\ pc' = "terminated"
          /\ table' = table
          /\ Len(deleteLog') = idx
          /\ deleteLog' = SubSeq(expiredItems.keys, 1, idx)]_vars
  /\ [][Terminated => procVars' = procVars]_vars
  /\ [][procVars' # procVars => Present(table') \subseteq Present(table)]_vars

\* the first delete of a batch of two keys has failed
C7_Witness ==
  /\ Terminated
  /\ last = Answer("delete", "non200")
  /\ Len(deleteLog) = 1
  /\ Len(expiredItems.keys) = 2

\* C8: a successful scan that matches nothing, with an empty item list or
\* with none, sends no DeleteItem and raises no error: it goes to the
\* inter-cycle wait, and the wait goes to the next scan.
C8_EmptyScanWaits ==
  /\ [][(pc = "scan" /\ pc' # pc /\ last' = Answer("scan", "ok")
           /\ (~expiredItems'.defined \/ Len(expiredItems'.keys) = 0)) =>
          (pc' = "sleep" /\ deleteLog' = <<>> /\ issued' = issued \cup {"scan"})]_vars
  /\ [](pc = "sleep" /\ (~expiredItems.defined \/ Len(expiredItems.keys) = 0) =>
          (deleteLog = <<>> /\ last = Answer("scan", "ok")))
  /\ [][(pc = "sleep" /\ pc' # pc) => (pc' = "scan" /\ issued' = issued)]_vars

\* a scan of a table that holds items has returned no item list
C8_Witness ==
  /\ pc = "sleep"
  /\ ~expiredItems.defined
  /\ last = Answer("scan", "ok")
  /\ Present(table) # {}

\* the attributes a key descriptor names
DescriptorNames(ks) == {ks.hash, ks.range} \ {NoName}

\* C9: every key sent in a DeleteItem request holds exactly the attributes
\* the held key descriptor names, with the values some item of the table has
\* for them.
C9_KeyIsProjection ==
  \A k \in 1..Len(deleteLog) :
    /\ DOMAIN deleteLog[k] = DescriptorNames(keySchema)
    /\ \E i \in ItemIds :
         \A a \in DOMAIN deleteLog[k] :
           deleteLog[k][a] = (IF a = HashName THEN HashOf(composite, i) ELSE SortOf(i))

\* the key types of a response's key schema entries
KeyTypes(response) ==
  {response.KeySchema[k].KeyType : k \in 1..Len(response.KeySchema)}

\* every key schema entry has an attribute definition with a type
AllTyped(response) ==
  \A k \in 1..Len(response.KeySchema) :
    \E d \in 1..Len(response.AttributeDefinitions) :
      /\ response.AttributeDefinitions[d].AttributeName =
           response.KeySchema[k].AttributeName
      /\ response.AttributeDefinitions[d].AttributeType # NoName

\* what C10 expects of the descriptor for a response
DescriptorMatches(response, ks) ==
  /\ (KeyTypes(response) = {"HASH", "RANGE"} => (ks.hash = HashName /\ ks.range = RangeName))
  /\ (KeyTypes(response) = {"HASH"} => (ks.hash = HashName /\ ks.range = NoName))

\* C10 as stated: for every successful response, a HASH and a RANGE entry
\* give a descriptor with both attributes, a HASH entry alone gives the
\* partition attribute and no sort attribute.
C10_Original ==
  describeResponse.received => DescriptorMatches(describeResponse, keySchema)

\* C10 amended: the same, for the responses whose key schema entries all have
\* an attribute definition with a type.
C10_DescriptorOfTypedSchema ==
  (describeResponse.received /\ AllTyped(describeResponse)) =>
    DescriptorMatches(describeResponse, keySchema)

\* a composite key has been resolved to both attributes
C10_Witness ==
  /\ describeResponse.received
  /\ AllTyped(describeResponse)
  /\ KeyTypes(describeResponse) = {"HASH", "RANGE"}
  /\ keySchema = [resolved |-> TRUE, hash |-> HashName, range |-> RangeName]

\* C11: whenever a scan has been issued, and whenever the process has left
\* RESOLVING for RUNNING, the descriptor it holds names a partition attribute.
C11_PartitionResolved ==
  ("scan" \in issued \/ Running) => keySchema.hash # NoName

\* a describe request that ended in anything but success or table-not-found
DescribeFatal ==
  /\ last.req = "describe"
  /\ last.outcome \in {"error", "non200", "noTable", "noKeySchema"}

\* C12: a describe failure other than table-not-found (a thrown error of
\* another kind, a non-success status, a response without a table or without
\* a key schema) terminates the process in the step that receives it: no
\* retry wait follows, the descriptor stays unresolved, and the terminated
\* process sends no describe, scan or delete.
C12_DescribeFailureIsFatal ==
  /\ [](DescribeFatal => Terminated /\ ~keySchema.resolved)
  /\ [][(pc = "resolve" /\ last'.req = "describe"
           /\ last'.outcome \notin {"ok", "ResourceNotFoundException"}) =>
          pc' = "terminated"]_vars
  /\ [][DescribeFatal => procVars' = procVars]_vars
  /\ [](DescribeFatal => issued = {"describe"} /\ deleteLog = <<>>)

\* the describe of a table that exists came back without a key schema
C12_Witness ==
  /\ Terminated
  /\ last = Answer("describe", "noKeySchema")
  /\ tableExists

\* C13: when one of the four configuration values (endpoint, region, table
\* name, TTL attribute name) is absent at startup, the process terminates
\* before it sends any request to the store and before any retry wait: it is
\* never found waiting or RUNNING, and it has issued nothing.
C13_MissingConfigStopsAtOnce ==
  env # AllVars => issued = {} /\ pc \in {"load", "resolve", "terminated"}

\* a scan or delete request that did not succeed
RunningFailure ==
  /\ last.req \in {"scan", "delete"}
  /\ last.outcome # "ok"

\* C14: once RUNNING, a scan or a delete that does not succeed (a non-success
\* status or a thrown error, table-not-found after a drop included)
\* terminates the process in the step that receives it; the terminated
\* process sends nothing and waits for nothing, a failed scan is followed by
\* no delete, and no step of a RUNNING process leads back to the retry wait
\* of the resolution.
C14_RunningFailureIsFatal ==
  /\ [](RunningFailure => Terminated)
  /\ [][(Running /\ last' # last /\ last'.outcome # "ok") => pc' = "terminated"]_vars
  /\ [][RunningFailure => procVars' = procVars]_vars
  /\ []((RunningFailure /\ last.req = "scan") => deleteLog = <<>>)
  /\ [][Running => ~Resolving']_vars

\* the table was dropped under the RUNNING process and the next scan was
\* answered table-not-found
C14_Witness ==
  /\ Terminated
  /\ keySchema.resolved
  /\ ~tableExists
  /\ last = Answer("scan", "ResourceNotFoundException")

\* the last thing that happened to the process is an unrecoverable error: a
\* missing configuration value, a describe failure other than not-found, or
\* a failed scan or delete
FatalCause == last = ConfigError \/ DescribeFatal \/ RunningFailure

\* C15: the process has no normal exit. Whenever it is terminated, an
\* unrecoverable error is what it saw last; a step terminates it only by such
\* an error; while it is not terminated it always has a next step, and with
\* its steps taken it is again and again at the start of a describe attempt
\* or of a polling cycle, or else terminated by an error.
C15_NoNormalExit ==
  /\ [](Terminated => FatalCause)
  /\ [][pc' = "terminated" /\ pc # "terminated" => FatalCause' /\ last' # last]_vars
  /\ [](~Terminated => ENABLED Process)
  /\ []<>(Terminated \/ pc \in {"resolve", "scan"})

\* the process has completed a cycle with deletes and is at its next scan,
\* not terminated
C15_Witness ==
  /\ pc = "scan"
  /\ "delete" \in issued
  /\ last = Answer("delete", "ok")

\* C16: the steps of the RUNNING process follow one fixed order and never
\* overlap: a scan is followed by the deletes of its batch or, with nothing
\* to delete, by the wait; deletes go one request per step and reach the wait
\* only when the whole batch has been sent; the wait is followed by the next
\* scan, and a scan starts only after a wait (or after the resolution), with
\* no batch pending; no step sends more than one request.
C16_CycleOrder ==
  /\ [][(Running /\ pc' # pc) =>
          /\ (pc = "scan" => pc' \in {"delete", "sleep", "terminated"})
          /\ (pc = "delete" => pc' \in {"sleep", "terminated"})
          /\ (pc = "sleep" => pc' = "scan")]_vars
  /\ [][(pc' = "sleep" /\ pc # "sleep") =>
          \/ pc = "scan" /\ (~expiredItems'.defined \/ expiredItems'.keys = <<>>)
          \/ pc = "delete" /\ deleteLog' = expiredItems.keys]_vars
  /\ [][(pc' = "scan" /\ pc # "scan") => pc = "sleep" \/ Resolving]_vars
  /\ [](pc = "scan" => deleteLog = <<>> /\ ~expiredItems.defined)
  /\ [][/\ Cardinality(issued' \ issued) <= 1
        /\ (deleteLog' # deleteLog /\ deleteLog' # <<>> =>
              pc = "delete" /\ Len(deleteLog') = Len(deleteLog) + 1)
        /\ (expiredItems' # expiredItems /\ expiredItems'.defined => pc = "scan")]_vars

\* a batch of two has been sent, one request after the other, and the
\* process is at the wait of that cycle
C16_Witness ==
  /\ pc = "sleep"
  /\ idx = 3
  /\ Len(deleteLog) = 2
  /\ expiredItems.keys = deleteLog

\* the attribute names that a key projected with descriptor ks holds
ProjectedNames(ks) == {ks.hash} \cup ({ks.range} \ {NoName})

\* C17: the key descriptor is resolved once and then never changes: a
\* resolved descriptor is kept by every step, whatever happens to the table;
\* with a resolved descriptor the process is never again at a describe
\* attempt or at its retry wait, and no step of the RUNNING process leaves
\* RUNNING except to terminate; every scan builds its keys from the
\* attributes that the held descriptor names, also after the table was
\* dropped and created again with another key schema.
C17_DescriptorResolvedOnce ==
  /\ [][keySchema.resolved => keySchema' = keySchema]_vars
  /\ [](keySchema.resolved => ~Resolving)
  /\ [](Running => keySchema.resolved)
  /\ [][Running => Running' \/ Terminated']_vars
  /\ [][(pc = "scan" /\ expiredItems'.defined) =>
          \A k \in 1..Len(expiredItems'.keys) :
            DOMAIN expiredItems'.keys[k] = ProjectedNames(keySchema')]_vars

\* a descriptor resolved from a composite key was used by a scan of the
\* table created again with a simple key: the projected key names the sort
\* attribute, which the item does not have
C17_Witness ==
  /\ pc = "delete"
  /\ keySchema = [resolved |-> TRUE, hash |-> HashName, range |-> RangeName]
  /\ ~composite
  /\ expiredItems.keys[1][RangeName] = Undefined

\* entry k of the response's key schema is one the loop classifies as
\* keyType: it has that key type and an attribute definition with a type
Recognised(response, k, keyType) ==
  /\ response.KeySchema[k].KeyType = keyType
  /\ \E d \in 1..Len(response.AttributeDefinitions) :
       /\ response.AttributeDefinitions[d].AttributeName =
            response.KeySchema[k].AttributeName
       /\ response.AttributeDefinitions[d].AttributeType # NoName

\* the attribute the descriptor holds for keyType given the response: the
\* name of the recognised entry of that type, none without one
FieldFor(response, keyType) ==
  LET ks == {k \in 1..Len(response.KeySchema) : Recognised(response, k, keyType)}
  IN IF ks = {} THEN NoName ELSE response.KeySchema[CHOOSE k \in ks : TRUE].AttributeName

\* C18: a key-schema entry whose key type is neither HASH nor RANGE, or
\* whose attribute has no definition or no type, does not abort the
\* resolution and puts no name into the descriptor: for every successful
\* response getTableKeySchema returns, the process goes on to the first
\* scan, and the descriptor holds exactly the recognised HASH entry and the
\* recognised RANGE entry, each classified as it is without the skipped ones.
C18_SkippedEntriesLeaveTheRest ==
  describeResponse.received =>
    /\ pc = "scan"
    /\ last = Answer("describe", "ok")
    /\ keySchema.resolved
    /\ keySchema.hash = FieldFor(describeResponse, "HASH")
    /\ keySchema.range = FieldFor(describeResponse, "RANGE")

\* the response has a first entry of an unknown key type and a RANGE entry
\* with a typed definition: the descriptor holds the sort attribute only
C18_Witness ==
  /\ describeResponse.received
  /\ Len(describeResponse.KeySchema) = 2
  /\ describeResponse.KeySchema[1].KeyType = "OTHER"
  /\ Recognised(describeResponse, 2, "RANGE")
  /\ keySchema = [resolved |-> TRUE, hash |-> NoName, range |-> RangeName]

\* C19 as stated: the DeleteItem requests of a cycle carry keys of the result
\* of that cycle's scan, and no key is sent twice in the cycle.
C19_Original ==
  /\ \A k \in 1..Len(deleteLog) :
       \E n \in 1..Len(expiredItems.keys) : deleteLog[k] = expiredItems.keys[n]
  /\ \A j, k \in 1..Len(deleteLog) : j # k => deleteLog[j] # deleteLog[k]

\* C19 amended: keys do not carry over between cycles. Every DeleteItem
\* request of a cycle carries an element of the result of that cycle's scan,
\* each element is sent at most once (the requests are a prefix of the
\* result, which can hold the same key twice); the
\* result holds only keys projected from items that the scan found expired
\* in the table at that moment; the wait ends the cycle with nothing kept,
\* and a terminated process sends nothing, so a key that failed or was not
\* reached is sent again only when a later scan returns it.
C19_KeysOfThisCycleOnly ==
  /\ [](/\ Len(deleteLog) <= Len(expiredItems.keys)
        /\ \A k \in 1..Len(deleteLog) : deleteLog[k] = expiredItems.keys[k])
  /\ [][(pc = "scan" /\ expiredItems'.defined) =>
          \A k \in 1..Len(expiredItems'.keys) :
            \E i \in ExpiredAt(table, EpochSeconds(Now)) :
              expiredItems'.keys[k] = ProjectKey(keySchema, ItemRecord(composite, table, i))]_vars
  /\ [][(pc = "sleep" /\ pc' # pc) => expiredItems' = NoItems /\ deleteLog' = <<>>]_vars
  /\ [][deleteLog' # deleteLog => expiredItems' = expiredItems \/ pc = "sleep"]_vars
  /\ [][Terminated => deleteLog' = deleteLog]_vars

\* the first key of a result of two has been deleted and the second is next
C19_Witness ==
  /\ pc = "delete"
  /\ idx = 2
  /\ Len(expiredItems.keys) = 2
  /\ deleteLog = <<expiredItems.keys[1]>>
  /\ last = Answer("delete", "ok")

\* C20: with other clients writing between the scan and the deletes, every
\* item that a DeleteItem request of the process removes has, in the state
\* the request meets, a numeric TTL strictly below the epoch second: an item
\* whose TTL was extended, or that was put again under the same key with a
\* later TTL, after the scan is not removed.
C20_DeletesOnlyExpired ==
  [][(pc = "delete" /\ deleteLog' # deleteLog) =>
       \A i \in Present(table) \ Present(table') :
         i \in ExpiredAt(table, EpochSeconds(Now))]_vars
====
